---- MODULE Spec2Model ----
(***************************************************************************)
(* A model of tsk/hashdb/tsk_hashdb.c of The Sleuth Kit: the format        *)
(* detector (hdb_determine_db_type), the router (tsk_hdb_open) and the     *)
(* caller-facing entry points that dispatch to a backend through the       *)
(* function pointers of TSK_HDB_INFO, the transaction entry points among   *)
(* them.                                                                   *)
(*                                                                         *)
(* Five specifications share the variables:                                *)
(*   Spec       one open handle of any backend and the mutation entry      *)
(*              points called on it;                                       *)
(*   SpecAccess one open handle and the whole public interface;            *)
(*   SpecDetect hdb_determine_db_type applied to one candidate file;       *)
(*   SpecOpen   tsk_hdb_open applied to one path and one set of flags;     *)
(*   SpecCreate tsk_hdb_create applied to one path.                        *)
(***************************************************************************)
EXTENDS Integers, Sequences, FiniteSets, TLC

(***************************************************************************)
(* Bounds of the model                                                     *)
(***************************************************************************)
\* The sniff tests leave the stream at an offset in 0..MaxPos.
MaxPos == 2
\* The longest stem put in front of a path's tail.
MaxStem == 1
\* The model stops counting the backend's open transactions beyond this.
MaxBackendOpen == 2

(***************************************************************************)
(* TSK_HDB_DBTYPE_ENUM, the error kinds and the optional operations        *)
(***************************************************************************)
INVALID == "TSK_HDB_DBTYPE_INVALID_ID"
NSRL    == "TSK_HDB_DBTYPE_NSRL_ID"
MD5SUM  == "TSK_HDB_DBTYPE_MD5SUM_ID"
ENCASE  == "TSK_HDB_DBTYPE_ENCASE_ID"
HK      == "TSK_HDB_DBTYPE_HK_ID"
IDXONLY == "TSK_HDB_DBTYPE_IDXONLY_ID"
SQLITE  == "TSK_HDB_DBTYPE_SQLITE_ID"

DbTypes == {NSRL, MD5SUM, ENCASE, HK, IDXONLY, SQLITE}

\* The error kinds this file records, and "none" for an error state it has
\* not written.
ERR_ARG     == "TSK_ERR_HDB_ARG"
ERR_PROC    == "TSK_ERR_HDB_PROC"
ERR_OPEN    == "TSK_ERR_HDB_OPEN"
ERR_UNKTYPE == "TSK_ERR_HDB_UNKTYPE"
ERR_NONE    == "none"

\* The function pointers of TSK_HDB_INFO that the entry points treat as
\* optional: a backend is described by the set of those that are not NULL.
OptionalOps == {"accepts_updates", "add_entry", "begin_transaction",
                "commit_transaction", "rollback_transaction"}

VARIABLES
    pc,                      \* "ready", or "crashed" after a call through a NULL pointer
    hdb_live,                \* TRUE while the TSK_HDB_INFO handle exists
    db_type,                 \* hdb_info->db_type
    transaction_in_progress, \* hdb_info->transaction_in_progress
    fn_set,                  \* the optional function pointers that are not NULL
    accepts,                 \* what the backend's accepts_updates() returns
    tsk_errno,               \* the process-wide error kind
    tsk_errstr,              \* the process-wide error string
    call,                    \* the last public call: operation, result, backend methods invoked
    backend_open,            \* transactions the backend has begun and not ended
    arg,                     \* the inputs of SpecDetect and SpecOpen
    loc                      \* what the last hdb_determine_db_type / tsk_hdb_open did

vars == <<pc, hdb_live, db_type, transaction_in_progress, fn_set, accepts,
          tsk_errno, tsk_errstr, call, backend_open, arg, loc>>

hdbVars == <<hdb_live, db_type, fn_set, accepts>>

NoCall == [op |-> "none", null |-> FALSE, ret |-> 0, invoked |-> <<>>, tip |-> FALSE,
           kind |-> "none", str |-> "", bfail |-> FALSE]
NoArg  == [kind |-> "none"]
NoLoc  == [kind |-> "none"]

(***************************************************************************)
(* The outcome of one entry point: the value returned, the error recorded  *)
(* (kind "none": the error state is left as it was), the backend methods   *)
(* invoked, in order, the value of transaction_in_progress afterwards and  *)
(* whether the call went through a NULL function pointer.                  *)
(***************************************************************************)
Outcome(ret, kind, str, invoked, tip, crash) ==
    [ret |-> ret, kind |-> kind, str |-> str, invoked |-> invoked,
     tip |-> tip, crash |-> crash]

\* tsk_error_reset(); tsk_error_set_errno(kind); tsk_error_set_errstr(str); return ret
Fail(ret, kind, str, invoked, tip) == Outcome(ret, kind, str, invoked, tip, FALSE)

\* A call through a function pointer: a NULL pointer ends the process.
CallThrough(fns, f, invoked, tip, then) ==
    IF f \in fns THEN then
    ELSE Outcome(1, ERR_NONE, "", Append(invoked, f), tip, TRUE)

(***************************************************************************)
(* hdb_determine_db_type.  The candidate file is described by what the     *)
(* sniff tests report on it: sq, the relational-store signature test       *)
(* (sqlite_hdb_is_sqlite_file) succeeds; tests, the set of text-format     *)
(* tests that succeed; left[t], the offset at which test t leaves the      *)
(* stream.  A detector state d holds the local db_type, the stream         *)
(* position, the tests run so far, and whether the function has returned.  *)
(***************************************************************************)
TextTests  == {"nsrl_test", "md5sum_test", "encase_test", "hk_test"}
SniffTests == TextTests \cup {"sqlite_hdb_is_sqlite_file"}

\* fseeko(hDb, 0, SEEK_SET)
fseeko(d) == [d EXCEPT !.pos = 0]

\* A sniff test reads the stream and leaves it where it stopped reading.
sniff(d, t, left) == [d EXCEPT !.pos = left[t], !.ran = Append(@, t)]

\* return db_type, with the tests after the return not run
return_type(d, id) == [d EXCEPT !.db_type = id, !.returned = TRUE]

\* sqlite_step that notes the match and goes on to the text-format tests.
sqlite_step_no_return(d, sq, left) ==
    LET s == sniff(d, "sqlite_hdb_is_sqlite_file", left)
    IN  IF sq THEN [fseeko(s) EXCEPT !.db_type = SQLITE] ELSE s

\* Lines 44-47: the relational-store signature is tested first.
sqlite_step(d, sq, left) ==
    LET s == sniff(d, "sqlite_hdb_is_sqlite_file", left)
    IN  IF sq THEN return_type(fseeko(s), SQLITE) ELSE s

\* Lines 51-54: the first text format has no earlier match to collide with.
nsrl_step(d, tests, left) ==
    IF d.returned THEN d
    ELSE LET s == sniff(fseeko(d), "nsrl_test", left)
         IN  IF "nsrl_test" \in tests THEN [s EXCEPT !.db_type = NSRL] ELSE s

\* text_step with the collision test left out: the last match wins.
text_step_last_wins(d, t, id, tests, left) ==
    IF d.returned THEN d
    ELSE LET s == sniff(fseeko(d), t, left)
         IN  IF t \in tests THEN [s EXCEPT !.db_type = id] ELSE s

\* text_step without the rewind before the return on a collision.
text_step_no_rewind(d, t, id, tests, left) ==
    IF d.returned THEN d
    ELSE LET s == sniff(fseeko(d), t, left)
         IN  IF t \in tests
             THEN IF s.db_type # INVALID
                  THEN return_type(s, INVALID)
                  ELSE [s EXCEPT !.db_type = id]
             ELSE s

\* Lines 56-63, 65-72, 74-81: rewind, run the test and, when it succeeds,
\* reject the file if an earlier test has succeeded too.
text_step(d, t, id, tests, left) ==
    IF d.returned THEN d
    ELSE LET s == sniff(fseeko(d), t, left)
         IN  IF t \in tests
             THEN IF s.db_type # INVALID
                  THEN return_type(fseeko(s), INVALID)
                  ELSE [s EXCEPT !.db_type = id]
             ELSE s

\* Lines 83-84
final_step(d) ==
    IF d.returned THEN d ELSE return_type(fseeko(d), d.db_type)

hdb_determine_db_type(sq, tests, left) ==
    LET d0 == [db_type |-> INVALID, pos |-> 0, ran |-> <<>>, returned |-> FALSE]
        d1 == sqlite_step(d0, sq, left)
        d2 == nsrl_step(d1, tests, left)
        d3 == text_step(d2, "md5sum_test", MD5SUM, tests, left)
        d4 == text_step(d3, "encase_test", ENCASE, tests, left)
        d5 == text_step(d4, "hk_test", HK, tests, left)
    IN  final_step(d5)

(***************************************************************************)
(* Strings.  A string is the sequence of its characters; a buffer is a     *)
(* sequence of characters and NUL; a NULL path pointer is NullPath.        *)
(***************************************************************************)
NUL      == "NUL"
NullPath == <<"NULL">>

IDX_MD5  == <<"-", "m", "d", "5", ".", "i", "d", "x">>
IDX_SHA1 == <<"-", "s", "h", "a", "1", ".", "i", "d", "x">>

\* TSTRRCHR: the index of the last c in s; 0 stands for NULL.
TSTRRCHR(s, c) ==
    LET hits == {i \in 1..Len(s) : s[i] = c}
    IN  IF hits = {} THEN 0 ELSE CHOOSE i \in hits : \A j \in hits : j <= i

\* The string a pointer into s points at, and TSTRLEN, TSTRCMP on it.
StrAt(s, i)    == SubSeq(s, i, Len(s))
TSTRLEN(s)     == Len(s)
TSTRCMP(s, t)  == IF s = t THEN 0 ELSE 1

\* tsk_malloc: a buffer of n characters, set to zero.
tsk_malloc(n) == [i \in 1..n |-> NUL]

\* TSTRNCPY(dst, src, n): the first n characters of dst are overwritten by
\* those of src, by NUL past the end of src; no terminator is added.
TSTRNCPY(dst, src, n) ==
    [i \in 1..Len(dst) |->
        IF i <= n THEN (IF i <= Len(src) THEN src[i] ELSE NUL) ELSE dst[i]]

\* The string a buffer holds: its characters before the first NUL.  A buffer
\* without a NUL is read past its end; that is marked by the character "?".
CStr(buf) ==
    LET nuls == {i \in 1..Len(buf) : buf[i] = NUL}
    IN  IF nuls = {} THEN Append(buf, "?")
        ELSE SubSeq(buf, 1, (CHOOSE i \in nuls : \A j \in nuls : i <= j) - 1)

(***************************************************************************)
(* tsk_hdb_create.  create_ret is what sqlite_hdb_create_db returns when   *)
(* it is called; created lists the paths it has been called with.          *)
(***************************************************************************)
KDB == <<".", "k", "d", "b">>

\* tsk_hdb_create with any extension of four characters or more accepted.
tsk_hdb_create_any_extension(file_path, create_ret) ==
    IF file_path = NullPath
    THEN [ret |-> 1, kind |-> ERR_ARG, str |-> "tsk_hdb_create: NULL file path",
          created |-> <<>>]
    ELSE LET ext == TSTRRCHR(file_path, ".")
         IN  IF ext # 0 /\ TSTRLEN(StrAt(file_path, ext)) >= 4
             THEN [ret |-> create_ret, kind |-> ERR_NONE, str |-> "",
                   created |-> <<file_path>>]
             ELSE [ret |-> 1, kind |-> ERR_ARG,
                   str |-> "tsk_hdb_create: path must end in .kdb extension",
                   created |-> <<>>]

\* Lines 93-115
tsk_hdb_create(file_path, create_ret) ==
    IF file_path = NullPath
    THEN [ret |-> 1, kind |-> ERR_ARG, str |-> "tsk_hdb_create: NULL file path",
          created |-> <<>>]
    ELSE LET ext == TSTRRCHR(file_path, ".")
         IN  IF /\ ext # 0
                /\ TSTRLEN(StrAt(file_path, ext)) >= 4
                /\ TSTRCMP(StrAt(file_path, ext), KDB) = 0
             THEN [ret |-> create_ret, kind |-> ERR_NONE, str |-> "",
                   created |-> <<file_path>>]
             ELSE [ret |-> 1, kind |-> ERR_ARG,
                   str |-> "tsk_hdb_create: path must end in .kdb extension",
                   created |-> <<>>]

(***************************************************************************)
(* tsk_hdb_open.  The environment e of one call: malloc_ok, tsk_malloc     *)
(* returns a buffer; db_opens / idx_opens, hdb_open_file succeeds on the   *)
(* database path / on the supplied path; sq, tests, left, what the sniff   *)
(* tests report on the database file; ctor_ok, the backend constructor     *)
(* returns a handle.  A file handle is "NULL", "open", "closed" (fclose by *)
(* the router) or "passed" (handed to a backend constructor).              *)
(***************************************************************************)
\* resolve_db_path copying one character too many: the '-' is kept.
resolve_db_path_off_by_one(file_path) ==
    LET buf == tsk_malloc(TSTRLEN(file_path) + 1)
        ext == TSTRRCHR(file_path, "-")
    IN  IF /\ ext # 0
           /\ (TSTRLEN(StrAt(file_path, ext)) = 8 \/ TSTRLEN(StrAt(file_path, ext)) = 9)
           /\ (\/ TSTRCMP(StrAt(file_path, ext), IDX_MD5) = 0
               \/ TSTRCMP(StrAt(file_path, ext), IDX_SHA1) = 0)
        THEN [file_path_is_idx_path |-> TRUE,
              db_path |-> CStr(TSTRNCPY(buf, file_path, ext))]
        ELSE [file_path_is_idx_path |-> FALSE,
              db_path |-> CStr(TSTRNCPY(buf, file_path, TSTRLEN(file_path)))]

\* Lines 155-169: the database path for the given path.
resolve_db_path(file_path) ==
    LET buf == tsk_malloc(TSTRLEN(file_path) + 1)
        ext == TSTRRCHR(file_path, "-")
    IN  IF /\ ext # 0
           /\ (TSTRLEN(StrAt(file_path, ext)) = 8 \/ TSTRLEN(StrAt(file_path, ext)) = 9)
           /\ (\/ TSTRCMP(StrAt(file_path, ext), IDX_MD5) = 0
               \/ TSTRCMP(StrAt(file_path, ext), IDX_SHA1) = 0)
        THEN [file_path_is_idx_path |-> TRUE,
              db_path |-> CStr(TSTRNCPY(buf, file_path, ext - 1))]
        ELSE [file_path_is_idx_path |-> FALSE,
              db_path |-> CStr(TSTRNCPY(buf, file_path, TSTRLEN(file_path)))]

\* The locals of tsk_hdb_open once db_path is set.
OpenLocals(file_path, p) ==
    [ret |-> "NULL", returned |-> FALSE, file_path |-> file_path,
     db_path |-> p.db_path, file_path_is_idx_path |-> p.file_path_is_idx_path,
     db_type |-> INVALID, hDb |-> "NULL", hIdx |-> "NULL",
     fopen |-> <<>>, detected |-> <<>>, det |-> <<>>, ctor |-> <<>>,
     trace |-> <<>>, kind |-> ERR_NONE, str |-> ""]

\* tsk_error_reset(); tsk_error_set_errno(kind); tsk_error_set_errstr(str);
\* free(db_path); return NULL
open_fail(r, kind, str) ==
    [r EXCEPT !.ret = "NULL", !.returned = TRUE, !.kind = kind, !.str = str]

\* hdb_open_file(path): the attempt is noted in fopen, with its result, and
\* in trace, the order in which the router opens and closes files and calls
\* constructors.
hdb_open_file(r, path, ok) ==
    [r EXCEPT !.fopen = Append(@, [path |-> path, ok |-> ok]),
              !.trace = Append(@, [ev |-> "fopen", what |-> path, ok |-> ok])]

\* fclose that leaves the file open.
fclose_leaves_open(r, h) == r

\* fclose(hDb) or fclose(hIdx)
fclose(r, h) ==
    [r EXCEPT ![h] = "closed",
              !.trace = Append(@, [ev |-> "fclose", what |-> h, ok |-> TRUE])]

\* open_determine falling back to index-only for any path whose database
\* file does not open.
open_determine_always_falls_back(r, idxonly, e) ==
    IF ~idxonly
    THEN LET r0 == hdb_open_file(r, r.db_path, e.db_opens)
         IN  IF e.db_opens
             THEN LET d  == hdb_determine_db_type(e.sq, e.tests, e.left)
                      r1 == [r0 EXCEPT !.hDb = "open", !.detected = <<r.db_path>>,
                                       !.det = <<d>>, !.db_type = d.db_type]
                  IN  IF d.db_type = INVALID
                      THEN open_fail(r1, ERR_UNKTYPE,
                               "tsk_hdb_open: error determining hash database type of")
                      ELSE r1
             ELSE [r0 EXCEPT !.db_type = IDXONLY]
    ELSE [r EXCEPT !.db_type = IDXONLY]

\* Lines 172-199: determine the database type.
open_determine(r, idxonly, e) ==
    IF ~idxonly
    THEN LET r0 == hdb_open_file(r, r.db_path, e.db_opens)
         IN  IF e.db_opens
             THEN LET d  == hdb_determine_db_type(e.sq, e.tests, e.left)
                      r1 == [r0 EXCEPT !.hDb = "open", !.detected = <<r.db_path>>,
                                       !.det = <<d>>, !.db_type = d.db_type]
                  IN  IF d.db_type = INVALID
                      THEN open_fail(r1, ERR_UNKTYPE,
                               "tsk_hdb_open: error determining hash database type of")
                      ELSE r1
             ELSE IF r.file_path_is_idx_path
                  THEN [r0 EXCEPT !.db_type = IDXONLY]
                  ELSE open_fail(r0, ERR_OPEN, "tsk_hdb_open: failed to open")
    ELSE [r EXCEPT !.db_type = IDXONLY]

\* A backend constructor is called with a file handle (or none) and db_path.
construct(r, name, withFile, e) ==
    [r EXCEPT !.ctor = Append(@, [name |-> name, path |-> r.db_path, file |-> withFile]),
              !.trace = Append(@, [ev |-> "ctor", what |-> name, ok |-> e.ctor_ok]),
              !.hDb = IF withFile THEN "passed" ELSE @,
              !.ret = IF e.ctor_ok THEN "hdb" ELSE "NULL",
              !.returned = TRUE]

\* open_dispatch probing the database path in place of the supplied path.
open_dispatch_probes_db_path(r, e) ==
    IF r.returned THEN r
    ELSE CASE r.db_type = NSRL   -> construct(r, "nsrl_open", TRUE, e)
           [] r.db_type = MD5SUM -> construct(r, "md5sum_open", TRUE, e)
           [] r.db_type = ENCASE -> construct(r, "encase_open", TRUE, e)
           [] r.db_type = HK     -> construct(r, "hk_open", TRUE, e)
           [] r.db_type = IDXONLY ->
                 LET r0 == hdb_open_file(r, r.db_path, e.idx_opens)
                 IN  IF ~e.idx_opens
                     THEN open_fail(r0, ERR_OPEN,
                              "tsk_hdb_open: database is index only, failed to open index")
                     ELSE construct(fclose([r0 EXCEPT !.hIdx = "open"], "hIdx"),
                                    "idxonly_open", FALSE, e)
           [] r.db_type = SQLITE ->
                 construct(IF r.hDb # "NULL" THEN fclose(r, "hDb") ELSE r,
                           "sqlite_hdb_open", FALSE, e)
           [] OTHER -> [r EXCEPT !.returned = TRUE]

\* Lines 201-245: construct the backend for the type.
open_dispatch(r, e) ==
    IF r.returned THEN r
    ELSE CASE r.db_type = NSRL   -> construct(r, "nsrl_open", TRUE, e)
           [] r.db_type = MD5SUM -> construct(r, "md5sum_open", TRUE, e)
           [] r.db_type = ENCASE -> construct(r, "encase_open", TRUE, e)
           [] r.db_type = HK     -> construct(r, "hk_open", TRUE, e)
           [] r.db_type = IDXONLY ->
                 LET r0 == hdb_open_file(r, r.file_path, e.idx_opens)
                 IN  IF ~e.idx_opens
                     THEN open_fail(r0, ERR_OPEN,
                              "tsk_hdb_open: database is index only, failed to open index")
                     ELSE construct(fclose([r0 EXCEPT !.hIdx = "open"], "hIdx"),
                                    "idxonly_open", FALSE, e)
           [] r.db_type = SQLITE ->
                 construct(IF r.hDb # "NULL" THEN fclose(r, "hDb") ELSE r,
                           "sqlite_hdb_open", FALSE, e)
           [] OTHER -> [r EXCEPT !.returned = TRUE]

NoPath == [db_path |-> <<>>, file_path_is_idx_path |-> FALSE]

tsk_hdb_open(file_path, idxonly, e) ==
    IF file_path = NullPath
    THEN open_fail(OpenLocals(file_path, NoPath), ERR_ARG, "tsk_hdb_open: NULL file path")
    ELSE IF ~e.malloc_ok
    THEN [OpenLocals(file_path, NoPath) EXCEPT !.returned = TRUE]
    ELSE open_dispatch(
             open_determine(OpenLocals(file_path, resolve_db_path(file_path)), idxonly, e), e)

\* The db_type a backend constructor gives the handle it returns.
constructed_db_type(name) ==
    CASE name = "nsrl_open"       -> NSRL
      [] name = "md5sum_open"     -> MD5SUM
      [] name = "encase_open"     -> ENCASE
      [] name = "hk_open"         -> HK
      [] name = "idxonly_open"    -> IDXONLY
      [] name = "sqlite_hdb_open" -> SQLITE

(***************************************************************************)
(* The mutation entry points.  null: the caller passed a NULL handle;      *)
(* fails: the backend method that gets invoked, if any, reports failure.   *)
(* Each reads the handle's fields and yields the Outcome of the call.      *)
(***************************************************************************)
\* hdb_info->accepts_updates(), as the mutation entry points call it: with
\* no check of the pointer.
AcceptsCall(invoked, tip, yes, no) ==
    CallThrough(fn_set, "accepts_updates", invoked, tip,
                IF accepts THEN yes ELSE no)

NotSupported(func_name, invoked, tip) ==
    Fail(1, ERR_PROC, func_name \o ": operation not supported for this database type",
         invoked, tip)

tsk_hdb_accepts_updates(null) ==
    LET func_name == "tsk_hdb_accepts_updates"
        tip == transaction_in_progress
    IN  IF null
        THEN Fail(0, ERR_ARG, func_name \o ": NULL hdb_info", <<>>, tip)
        ELSE IF "accepts_updates" \notin fn_set
        THEN Fail(0, ERR_ARG, func_name \o ": NULL add_entry function ptr", <<>>, tip)
        ELSE Outcome(IF accepts THEN 1 ELSE 0, ERR_NONE, "",
                     <<"accepts_updates">>, tip, FALSE)

\* tsk_hdb_add_entry without the accepts_updates test.
add_entry_no_capability_check(null, fails) ==
    LET func_name == "tsk_hdb_add_entry"
        tip == transaction_in_progress
    IN  IF null
        THEN Fail(1, ERR_ARG, func_name \o ": NULL hdb_info", <<>>, tip)
        ELSE IF "add_entry" \notin fn_set
        THEN Fail(1, ERR_ARG, func_name \o ": NULL add_entry function ptr", <<>>, tip)
        ELSE Outcome(IF fails THEN 1 ELSE 0, ERR_NONE, "", <<"add_entry">>, tip, FALSE)

\* tsk_hdb_add_entry that marks a transaction in progress when the entry is added.
add_entry_sets_flag(null, fails) ==
    LET func_name == "tsk_hdb_add_entry"
        tip == transaction_in_progress
    IN  IF null
        THEN Fail(1, ERR_ARG, func_name \o ": NULL hdb_info", <<>>, tip)
        ELSE IF "add_entry" \notin fn_set
        THEN Fail(1, ERR_ARG, func_name \o ": NULL add_entry function ptr", <<>>, tip)
        ELSE AcceptsCall(<<>>, tip,
                 Outcome(IF fails THEN 1 ELSE 0, ERR_NONE, "",
                         <<"accepts_updates", "add_entry">>, tip \/ ~fails, FALSE),
                 NotSupported(func_name, <<"accepts_updates">>, tip))

tsk_hdb_add_entry(null, fails) ==
    LET func_name == "tsk_hdb_add_entry"
        tip == transaction_in_progress
    IN  IF null
        THEN Fail(1, ERR_ARG, func_name \o ": NULL hdb_info", <<>>, tip)
        ELSE IF "add_entry" \notin fn_set
        THEN Fail(1, ERR_ARG, func_name \o ": NULL add_entry function ptr", <<>>, tip)
        ELSE AcceptsCall(<<>>, tip,
                 Outcome(IF fails THEN 1 ELSE 0, ERR_NONE, "",
                         <<"accepts_updates", "add_entry">>, tip, FALSE),
                 NotSupported(func_name, <<"accepts_updates">>, tip))

\* tsk_hdb_begin_transaction without the test of transaction_in_progress.
begin_no_state_check(null, fails) ==
    LET func_name == "tsk_hdb_begin_transaction"
        tip == transaction_in_progress
    IN  IF null
        THEN Fail(1, ERR_ARG, func_name \o ": NULL hdb_info", <<>>, tip)
        ELSE IF "begin_transaction" \notin fn_set
        THEN Fail(1, ERR_ARG, func_name \o ": NULL begin_transaction function ptr", <<>>, tip)
        ELSE AcceptsCall(<<>>, tip,
                 IF fails
                 THEN Outcome(1, ERR_NONE, "",
                              <<"accepts_updates", "begin_transaction">>, tip, FALSE)
                 ELSE Outcome(0, ERR_NONE, "",
                              <<"accepts_updates", "begin_transaction">>, TRUE, FALSE),
                 NotSupported(func_name, <<"accepts_updates">>, tip))

\* tsk_hdb_begin_transaction without the accepts_updates test.
begin_no_capability_check(null, fails) ==
    LET func_name == "tsk_hdb_begin_transaction"
        tip == transaction_in_progress
    IN  IF null
        THEN Fail(1, ERR_ARG, func_name \o ": NULL hdb_info", <<>>, tip)
        ELSE IF "begin_transaction" \notin fn_set
        THEN Fail(1, ERR_ARG, func_name \o ": NULL begin_transaction function ptr", <<>>, tip)
        ELSE IF ~tip
        THEN IF fails
             THEN Outcome(1, ERR_NONE, "", <<"begin_transaction">>, tip, FALSE)
             ELSE Outcome(0, ERR_NONE, "", <<"begin_transaction">>, TRUE, FALSE)
        ELSE Fail(1, ERR_PROC, func_name \o ": transaction already begun", <<>>, tip)

tsk_hdb_begin_transaction(null, fails) ==
    LET func_name == "tsk_hdb_begin_transaction"
        tip == transaction_in_progress
    IN  IF null
        THEN Fail(1, ERR_ARG, func_name \o ": NULL hdb_info", <<>>, tip)
        ELSE IF "begin_transaction" \notin fn_set
        THEN Fail(1, ERR_ARG, func_name \o ": NULL begin_transaction function ptr", <<>>, tip)
        ELSE AcceptsCall(<<>>, tip,
                 IF ~tip
                 THEN IF fails
                      THEN Outcome(1, ERR_NONE, "",
                                   <<"accepts_updates", "begin_transaction">>, tip, FALSE)
                      ELSE Outcome(0, ERR_NONE, "",
                                   <<"accepts_updates", "begin_transaction">>, TRUE, FALSE)
                 ELSE Fail(1, ERR_PROC, func_name \o ": transaction already begun",
                           <<"accepts_updates">>, tip),
                 NotSupported(func_name, <<"accepts_updates">>, tip))

\* tsk_hdb_commit_transaction without the test of transaction_in_progress.
commit_no_state_check(null, fails) ==
    LET func_name == "tsk_hdb_commit_transaction"
        tip == transaction_in_progress
    IN  IF null
        THEN Fail(1, ERR_ARG, func_name \o ": NULL hdb_info", <<>>, tip)
        ELSE IF "commit_transaction" \notin fn_set
        THEN Fail(1, ERR_ARG, func_name \o ": NULL commit_transaction function ptr", <<>>, tip)
        ELSE AcceptsCall(<<>>, tip,
                 IF fails
                 THEN Outcome(1, ERR_NONE, "",
                              <<"accepts_updates", "commit_transaction">>, tip, FALSE)
                 ELSE Outcome(0, ERR_NONE, "",
                              <<"accepts_updates", "commit_transaction">>, FALSE, FALSE),
                 NotSupported(func_name, <<"accepts_updates">>, tip))

\* tsk_hdb_commit_transaction that clears transaction_in_progress before it
\* calls the backend.
commit_clears_on_failure(null, fails) ==
    LET func_name == "tsk_hdb_commit_transaction"
        tip == transaction_in_progress
    IN  IF null
        THEN Fail(1, ERR_ARG, func_name \o ": NULL hdb_info", <<>>, tip)
        ELSE IF "commit_transaction" \notin fn_set
        THEN Fail(1, ERR_ARG, func_name \o ": NULL commit_transaction function ptr", <<>>, tip)
        ELSE AcceptsCall(<<>>, tip,
                 IF tip
                 THEN Outcome(IF fails THEN 1 ELSE 0, ERR_NONE, "",
                              <<"accepts_updates", "commit_transaction">>, FALSE, FALSE)
                 ELSE Fail(1, ERR_PROC, func_name \o ": transaction not begun",
                           <<"accepts_updates">>, tip),
                 NotSupported(func_name, <<"accepts_updates">>, tip))

tsk_hdb_commit_transaction(null, fails) ==
    LET func_name == "tsk_hdb_commit_transaction"
        tip == transaction_in_progress
    IN  IF null
        THEN Fail(1, ERR_ARG, func_name \o ": NULL hdb_info", <<>>, tip)
        ELSE IF "commit_transaction" \notin fn_set
        THEN Fail(1, ERR_ARG, func_name \o ": NULL commit_transaction function ptr", <<>>, tip)
        ELSE AcceptsCall(<<>>, tip,
                 IF tip
                 THEN CallThrough(fn_set, "commit_transaction", <<"accepts_updates">>, tip,
                          IF fails
                          THEN Outcome(1, ERR_NONE, "",
                                       <<"accepts_updates", "commit_transaction">>, tip, FALSE)
                          ELSE Outcome(0, ERR_NONE, "",
                                       <<"accepts_updates", "commit_transaction">>, FALSE, FALSE))
                 ELSE Fail(1, ERR_PROC, func_name \o ": transaction not begun",
                           <<"accepts_updates">>, tip),
                 NotSupported(func_name, <<"accepts_updates">>, tip))

\* tsk_hdb_rollback_transaction without the test of transaction_in_progress.
rollback_no_state_check(null, fails) ==
    LET func_name == "tsk_hdb_rollback_transaction"
        tip == transaction_in_progress
    IN  IF null
        THEN Fail(1, ERR_ARG, func_name \o ": NULL hdb_info", <<>>, tip)
        ELSE IF "rollback_transaction" \notin fn_set
        THEN Fail(1, ERR_ARG, func_name \o ": NULL rollback_transaction function ptr", <<>>, tip)
        ELSE AcceptsCall(<<>>, tip,
                 CallThrough(fn_set, "commit_transaction", <<"accepts_updates">>, tip,
                     IF fails
                     THEN Outcome(1, ERR_NONE, "",
                                  <<"accepts_updates", "commit_transaction">>, tip, FALSE)
                     ELSE Outcome(0, ERR_NONE, "",
                                  <<"accepts_updates", "commit_transaction">>, FALSE, FALSE)),
                 NotSupported(func_name, <<"accepts_updates">>, tip))

\* The pointer tested is rollback_transaction; the method invoked at line 655
\* is commit_transaction.
tsk_hdb_rollback_transaction(null, fails) ==
    LET func_name == "tsk_hdb_rollback_transaction"
        tip == transaction_in_progress
    IN  IF null
        THEN Fail(1, ERR_ARG, func_name \o ": NULL hdb_info", <<>>, tip)
        ELSE IF "rollback_transaction" \notin fn_set
        THEN Fail(1, ERR_ARG, func_name \o ": NULL rollback_transaction function ptr", <<>>, tip)
        ELSE AcceptsCall(<<>>, tip,
                 IF tip
                 THEN CallThrough(fn_set, "commit_transaction", <<"accepts_updates">>, tip,
                          IF fails
                          THEN Outcome(1, ERR_NONE, "",
                                       <<"accepts_updates", "commit_transaction">>, tip, FALSE)
                          ELSE Outcome(0, ERR_NONE, "",
                                       <<"accepts_updates", "commit_transaction">>, FALSE, FALSE))
                 ELSE Fail(1, ERR_PROC, func_name \o ": transaction not begun",
                           <<"accepts_updates">>, tip),
                 NotSupported(func_name, <<"accepts_updates">>, tip))

\* Lines 342-353
tsk_hdb_is_idx_only(null) ==
    LET tip == transaction_in_progress
    IN  IF null
        THEN Fail(0, ERR_ARG, "tsk_hdb_is_idx_only: NULL hdb_info", <<>>, tip)
        ELSE Outcome(IF db_type = IDXONLY THEN 1 ELSE 0, ERR_NONE, "", <<>>, tip, FALSE)

(***************************************************************************)
(* The entry points that only test the handle and dispatch.  bret is what  *)
(* the backend method returns; for a method that returns a pointer, 0 is   *)
(* NULL and 1 a pointer that is not NULL.  The methods they call are not   *)
(* optional: every backend sets them.                                      *)
(***************************************************************************)
\* if (!hdb_info) { record ARG, str; return nullret; } return hdb_info->method(...);
Dispatch(null, nullret, str, method, bret) ==
    IF null
    THEN Fail(nullret, ERR_ARG, str, <<>>, transaction_in_progress)
    ELSE Outcome(bret, ERR_NONE, "", <<method>>, transaction_in_progress, FALSE)

\* Lines 247-258
tsk_hdb_get_db_path(null, bret) ==
    Dispatch(null, 0, "tsk_hdb_get_db_path: NULL hdb_info", "get_db_path", bret)

\* Lines 260-271
tsk_hdb_get_display_name(null, bret) ==
    Dispatch(null, 0, "tsk_hdb_get_display_name: NULL hdb_info", "get_display_name", bret)

\* Lines 273-284: the string recorded at line 279 names tsk_hdb_get_display_name.
tsk_hdb_uses_external_indexes(null, bret) ==
    Dispatch(null, 0, "tsk_hdb_get_display_name: NULL hdb_info", "uses_external_indexes", bret)

\* Lines 286-297
tsk_hdb_get_idx_path(null, bret) ==
    Dispatch(null, 0, "tsk_hdb_get_idx_path: NULL hdb_info", "get_index_path", bret)

\* Lines 299-309: the value returned for a NULL handle is 0.
tsk_hdb_open_idx(null, bret) ==
    Dispatch(null, 0, "tsk_hdb_open_idx: NULL hdb_info", "open_index", bret)

\* Lines 320-331
tsk_hdb_has_idx(null, bret) ==
    Dispatch(null, 0, "tsk_hdb_has_idx: NULL hdb_info", "open_index",
             IF bret = 0 THEN 1 ELSE 0)

\* Lines 362-373
tsk_hdb_make_index(null, bret) ==
    Dispatch(null, 1, "tsk_hdb_make_index: NULL hdb_info", "make_index", bret)

\* Lines 387-400
tsk_hdb_lookup_str(null, bret) ==
    Dispatch(null, -1, "tsk_hdb_lookup_str: NULL hdb_info", "lookup_str", bret)

\* Lines 416-429
tsk_hdb_lookup_raw(null, bret) ==
    Dispatch(null, -1, "tsk_hdb_lookup_raw: NULL hdb_info", "lookup_raw", bret)

\* Lines 431-456: hash_null, result_null: the caller passed NULL for them.
tsk_hdb_lookup_verbose_str(null, hash_null, result_null, bret) ==
    LET tip == transaction_in_progress
    IN  IF null
        THEN Fail(-1, ERR_ARG, "tsk_hdb_lookup_verbose_str: NULL hdb_info", <<>>, tip)
        ELSE IF hash_null
        THEN Fail(-1, ERR_ARG, "tsk_hdb_lookup_verbose_str: NULL hash", <<>>, tip)
        ELSE IF result_null
        THEN Fail(-1, ERR_ARG, "tsk_hdb_lookup_verbose_str: NULL result", <<>>, tip)
        ELSE Outcome(bret, ERR_NONE, "", <<"lookup_verbose_str">>, tip, FALSE)

\* Lines 683-694: nothing is returned; ret is 0.
tsk_hdb_close(null) ==
    Dispatch(null, 0, "tsk_hdb_close: NULL hdb_info", "close_db", 0)

(***************************************************************************)
(* Spec: one handle, as a backend constructor returned it, and the public  *)
(* operations called on it in any order.                                   *)
(***************************************************************************)
\* The backend methods a call reached: those it invoked through a pointer
\* that is set.
Reached(out) ==
    {out.invoked[i] : i \in DOMAIN out.invoked} \cap
        (IF out.crash THEN {} ELSE OptionalOps \ {"accepts_updates"})

\* What a call does to the number of transactions open in the backend: a
\* begin_transaction that succeeds opens one, a commit_transaction or
\* rollback_transaction that succeeds ends one.
BackendDelta(fails, out) ==
    IF fails THEN 0
    ELSE IF "begin_transaction" \in Reached(out) THEN 1
    ELSE IF Reached(out) \cap {"commit_transaction", "rollback_transaction"} # {} THEN -1
    ELSE 0

\* The effect of one call on the state: the handle's flag, the error state
\* and the record of the call (tip: the flag before the call; kind, str: the
\* error this call recorded; bfail: the backend method it reached reported
\* failure).  A call through a NULL pointer ends the run.
ApplyF(op, null, fails, out) ==
    /\ pc = "ready"
    /\ hdb_live
    /\ backend_open + BackendDelta(fails, out) \in (0 - MaxBackendOpen)..MaxBackendOpen
    /\ pc' = IF out.crash THEN "crashed" ELSE "ready"
    /\ transaction_in_progress' = out.tip
    /\ tsk_errno'  = IF out.kind = ERR_NONE THEN tsk_errno  ELSE out.kind
    /\ tsk_errstr' = IF out.kind = ERR_NONE THEN tsk_errstr ELSE out.str
    /\ call' = [op |-> op, null |-> null, ret |-> out.ret, invoked |-> out.invoked,
                tip |-> transaction_in_progress, kind |-> out.kind, str |-> out.str,
                bfail |-> fails /\ Reached(out) # {}]
    /\ backend_open' = backend_open + BackendDelta(fails, out)
    /\ UNCHANGED <<hdbVars, arg, loc>>

\* A call whose backend method has no failure the entry point looks at.
Apply(op, null, out) == ApplyF(op, null, FALSE, out)

AcceptsUpdates ==
    \E null \in BOOLEAN :
        Apply("tsk_hdb_accepts_updates", null, tsk_hdb_accepts_updates(null))

AddEntry ==
    \E null \in BOOLEAN, fails \in BOOLEAN :
        ApplyF("tsk_hdb_add_entry", null, fails, tsk_hdb_add_entry(null, fails))

BeginTransaction ==
    \E null \in BOOLEAN, fails \in BOOLEAN :
        ApplyF("tsk_hdb_begin_transaction", null, fails, tsk_hdb_begin_transaction(null, fails))

CommitTransaction ==
    \E null \in BOOLEAN, fails \in BOOLEAN :
        ApplyF("tsk_hdb_commit_transaction", null, fails, tsk_hdb_commit_transaction(null, fails))

RollbackTransaction ==
    \E null \in BOOLEAN, fails \in BOOLEAN :
        ApplyF("tsk_hdb_rollback_transaction", null, fails, tsk_hdb_rollback_transaction(null, fails))

\* A handle as a backend constructor leaves it: any of the optional
\* operations set or unset, no transaction in progress.
Init ==
    /\ pc = "ready"
    /\ hdb_live = TRUE
    /\ db_type \in DbTypes
    /\ transaction_in_progress = FALSE
    /\ fn_set \in SUBSET OptionalOps
    /\ accepts \in BOOLEAN
    /\ tsk_errno = ERR_NONE
    /\ tsk_errstr = ""
    /\ call = NoCall
    /\ backend_open = 0
    /\ arg = NoArg
    /\ loc = NoLoc

IsIdxOnly ==
    \E null \in BOOLEAN :
        Apply("tsk_hdb_is_idx_only", null, tsk_hdb_is_idx_only(null))

Next ==
    \/ AcceptsUpdates
    \/ IsIdxOnly
    \/ AddEntry
    \/ BeginTransaction
    \/ CommitTransaction
    \/ RollbackTransaction

Spec == Init /\ [][Next]_vars

(***************************************************************************)
(* SpecAccess: the whole public interface on one handle.  The backend sets *)
(* all of the optional operations or none of them.                         *)
(***************************************************************************)
InitAccess ==
    /\ pc = "ready"
    /\ hdb_live = TRUE
    /\ db_type \in DbTypes
    /\ transaction_in_progress = FALSE
    /\ fn_set \in {{}, OptionalOps}
    /\ accepts \in BOOLEAN
    /\ tsk_errno = ERR_NONE
    /\ tsk_errstr = ""
    /\ call = NoCall
    /\ backend_open = 0
    /\ arg = NoArg
    /\ loc = NoLoc

\* What the backend methods may return.
Pointers == {0, 1}
Statuses == {0, 1}
Lookups  == {-1, 0, 1}

GetDbPath ==
    \E null \in BOOLEAN, bret \in Pointers :
        Apply("tsk_hdb_get_db_path", null, tsk_hdb_get_db_path(null, bret))

GetDisplayName ==
    \E null \in BOOLEAN, bret \in Pointers :
        Apply("tsk_hdb_get_display_name", null, tsk_hdb_get_display_name(null, bret))

UsesExternalIndexes ==
    \E null \in BOOLEAN, bret \in Statuses :
        Apply("tsk_hdb_uses_external_indexes", null, tsk_hdb_uses_external_indexes(null, bret))

GetIdxPath ==
    \E null \in BOOLEAN, bret \in Pointers :
        Apply("tsk_hdb_get_idx_path", null, tsk_hdb_get_idx_path(null, bret))

OpenIdx ==
    \E null \in BOOLEAN, bret \in Statuses :
        Apply("tsk_hdb_open_idx", null, tsk_hdb_open_idx(null, bret))

HasIdx ==
    \E null \in BOOLEAN, bret \in Statuses :
        Apply("tsk_hdb_has_idx", null, tsk_hdb_has_idx(null, bret))

MakeIndex ==
    \E null \in BOOLEAN, bret \in Statuses :
        Apply("tsk_hdb_make_index", null, tsk_hdb_make_index(null, bret))

LookupStr ==
    \E null \in BOOLEAN, bret \in Lookups :
        Apply("tsk_hdb_lookup_str", null, tsk_hdb_lookup_str(null, bret))

LookupRaw ==
    \E null \in BOOLEAN, bret \in Lookups :
        Apply("tsk_hdb_lookup_raw", null, tsk_hdb_lookup_raw(null, bret))

LookupVerboseStr ==
    \E null \in BOOLEAN, hash_null \in BOOLEAN, result_null \in BOOLEAN, bret \in Lookups :
        Apply("tsk_hdb_lookup_verbose_str", null,
              tsk_hdb_lookup_verbose_str(null, hash_null, result_null, bret))

\* tsk_hdb_close on the handle ends its life: close_db releases it.
Close ==
    \E null \in BOOLEAN :
        LET out == tsk_hdb_close(null)
        IN  /\ pc = "ready"
            /\ hdb_live
            /\ hdb_live' = null
            /\ tsk_errno'  = IF out.kind = ERR_NONE THEN tsk_errno  ELSE out.kind
            /\ tsk_errstr' = IF out.kind = ERR_NONE THEN tsk_errstr ELSE out.str
            /\ call' = [op |-> "tsk_hdb_close", null |-> null, ret |-> out.ret,
                        invoked |-> out.invoked, tip |-> transaction_in_progress,
                        kind |-> out.kind, str |-> out.str, bfail |-> FALSE]
            /\ UNCHANGED <<pc, db_type, transaction_in_progress, fn_set, accepts,
                           backend_open, arg, loc>>

NextAccess ==
    \/ Next
    \/ GetDbPath
    \/ GetDisplayName
    \/ UsesExternalIndexes
    \/ GetIdxPath
    \/ OpenIdx
    \/ HasIdx
    \/ MakeIndex
    \/ LookupStr
    \/ LookupRaw
    \/ LookupVerboseStr
    \/ Close

SpecAccess == InitAccess /\ [][NextAccess]_vars

(***************************************************************************)
(* SpecDetect: hdb_determine_db_type applied to one candidate file.        *)
(***************************************************************************)
InitDetect ==
    /\ pc = "ready"
    /\ hdb_live = FALSE
    /\ db_type = INVALID
    /\ transaction_in_progress = FALSE
    /\ fn_set = {}
    /\ accepts = FALSE
    /\ tsk_errno = ERR_NONE
    /\ tsk_errstr = ""
    /\ call = NoCall
    /\ backend_open = 0
    /\ \E sq \in BOOLEAN, tests \in SUBSET TextTests, left \in [SniffTests -> 0..MaxPos] :
           arg = [kind |-> "detect", sq |-> sq, tests |-> tests, left |-> left]
    /\ loc = NoLoc

Detect ==
    /\ pc = "ready"
    /\ arg.kind = "detect"
    /\ loc = NoLoc
    /\ loc' = [kind |-> "detect",
               det  |-> hdb_determine_db_type(arg.sq, arg.tests, arg.left)]
    /\ UNCHANGED <<pc, hdbVars, transaction_in_progress, tsk_errno, tsk_errstr, call, backend_open, arg>>

NextDetect == Detect

SpecDetect == InitDetect /\ [][NextDetect]_vars

(***************************************************************************)
(* SpecOpen: tsk_hdb_open called with one path and one set of flags, then  *)
(* tsk_hdb_is_idx_only on the handle it returned.                          *)
(***************************************************************************)
Stems == UNION {[1..n -> {"a", "-"}] : n \in 0..MaxStem}

Tails == {
    <<>>,
    IDX_MD5,
    IDX_SHA1,
    <<"-", "M", "D", "5", ".", "i", "d", "x">>,
    <<"-", "m", "d", "5", ".", "i", "d", "y">>,
    <<"-", "m", "d", "5", ".", "i", "d", "x", ".">>,
    <<"-", "s", "h", "a", "1", ".", "i", "d">>,
    <<"m", "d", "5", ".", "i", "d", "x">>,
    <<".", "i", "d", "x">>,
    <<"-", "s", "h", "a", "2", "5", "6", ".", "i", "d", "x">>,
    IDX_MD5 \o IDX_SHA1,
    <<".", "k", "d", "b">>
}

Paths == {stem \o tail : stem \in Stems, tail \in Tails} \cup {NullPath}

\* What the backend constructors may leave in the handle.
Backends == {[fns |-> {}, accepts |-> FALSE],
             [fns |-> OptionalOps, accepts |-> FALSE],
             [fns |-> OptionalOps, accepts |-> TRUE]}

OpenEnvs ==
    [malloc_ok : BOOLEAN, db_opens : BOOLEAN, idx_opens : BOOLEAN,
     sq : BOOLEAN, tests : SUBSET TextTests,
     left : {[t \in SniffTests |-> p] : p \in 0..MaxPos},
     ctor_ok : BOOLEAN]

InitOpen ==
    /\ pc = "ready"
    /\ hdb_live = FALSE
    /\ db_type = INVALID
    /\ transaction_in_progress = FALSE
    /\ fn_set = {}
    /\ accepts = FALSE
    /\ tsk_errno = ERR_NONE
    /\ tsk_errstr = ""
    /\ call = NoCall
    /\ backend_open = 0
    /\ \E file_path \in Paths, idxonly \in BOOLEAN :
           arg = [kind |-> "open", file_path |-> file_path, idxonly |-> idxonly]
    /\ loc = NoLoc

Open ==
    /\ pc = "ready"
    /\ arg.kind = "open"
    /\ loc = NoLoc
    /\ \E e \in OpenEnvs, b \in Backends :
          LET r == tsk_hdb_open(arg.file_path, arg.idxonly, e)
          IN  /\ loc' = [kind |-> "open", r |-> r]
              /\ tsk_errno'  = IF r.kind = ERR_NONE THEN tsk_errno  ELSE r.kind
              /\ tsk_errstr' = IF r.kind = ERR_NONE THEN tsk_errstr ELSE r.str
              /\ IF r.ret = "hdb"
                 THEN /\ hdb_live' = TRUE
                      /\ db_type' = constructed_db_type(r.ctor[Len(r.ctor)].name)
                      /\ fn_set' = b.fns
                      /\ accepts' = b.accepts
                 ELSE UNCHANGED hdbVars
    /\ UNCHANGED <<pc, transaction_in_progress, call, backend_open, arg>>

NextOpen ==
    \/ Open
    \/ IsIdxOnly

SpecOpen == InitOpen /\ [][NextOpen]_vars

(***************************************************************************)
(* SpecCreate: tsk_hdb_create called with one path.                        *)
(***************************************************************************)
CreateStems == UNION {[1..n -> {"a", ".", "k"}] : n \in 0..(MaxStem + 1)}

CreateTails == {
    <<>>,
    KDB,
    <<".", "K", "D", "B">>,
    <<".", "k", "d", "b", ".">>,
    <<".", "k", "d">>,
    <<"k", "d", "b">>,
    <<".", "k", "d", "b", "x">>,
    <<".", "d", "a", "t">>,
    KDB \o <<"/", "x">>
}

CreatePaths == {stem \o tail : stem \in CreateStems, tail \in CreateTails} \cup {NullPath}

InitCreate ==
    /\ pc = "ready"
    /\ hdb_live = FALSE
    /\ db_type = INVALID
    /\ transaction_in_progress = FALSE
    /\ fn_set = {}
    /\ accepts = FALSE
    /\ tsk_errno = ERR_NONE
    /\ tsk_errstr = ""
    /\ call = NoCall
    /\ backend_open = 0
    /\ \E file_path \in CreatePaths : arg = [kind |-> "create", file_path |-> file_path]
    /\ loc = NoLoc

Create ==
    /\ pc = "ready"
    /\ arg.kind = "create"
    /\ loc = NoLoc
    /\ \E create_ret \in {0, 1} :
          LET c == tsk_hdb_create(arg.file_path, create_ret)
          IN  /\ loc' = [kind |-> "create", c |-> c]
              /\ tsk_errno'  = IF c.kind = ERR_NONE THEN tsk_errno  ELSE c.kind
              /\ tsk_errstr' = IF c.kind = ERR_NONE THEN tsk_errstr ELSE c.str
    /\ UNCHANGED <<pc, hdbVars, transaction_in_progress, call, backend_open, arg>>

NextCreate == Create

SpecCreate == InitCreate /\ [][NextCreate]_vars

(***************************************************************************)
(* The properties                                                          *)
(***************************************************************************)
MutationMethods == {"add_entry", "begin_transaction",
                    "commit_transaction", "rollback_transaction"}

\* The backend methods the last call invoked.
Invoked == {call.invoked[i] : i \in DOMAIN call.invoked}

\* The backend accepts updates: accepts_updates is set and reports true.
AcceptsUpdatesTrue  == "accepts_updates" \in fn_set /\ accepts
\* The backend's accepts_updates is set and reports false.
AcceptsUpdatesFalse == "accepts_updates" \in fn_set /\ ~accepts

\* C1: on a backend that accepts updates, tsk_hdb_begin_transaction called
\* while the transaction begun by an earlier successful call is still in
\* progress returns 1, does not invoke the backend's begin_transaction again
\* and leaves transaction_in_progress set.
C1_SecondBeginIsAnError ==
    (/\ call.op = "tsk_hdb_begin_transaction"
     /\ ~call.null
     /\ AcceptsUpdatesTrue
     /\ call.tip)
    => /\ call.ret = 1
       /\ "begin_transaction" \notin Invoked
       /\ transaction_in_progress

C1_Witness ==
    /\ call.op = "tsk_hdb_begin_transaction"
    /\ ~call.null
    /\ AcceptsUpdatesTrue
    /\ call.tip
    /\ call.ret = 1
    /\ tsk_errstr = "tsk_hdb_begin_transaction: transaction already begun"

\* C2: a successful tsk_hdb_rollback_transaction from TRANSACTION_ACTIVE has
\* invoked the backend's rollback_transaction, has not invoked its
\* commit_transaction, and leaves NO_TRANSACTION.
C2_RollbackInvokesRollback ==
    (/\ call.op = "tsk_hdb_rollback_transaction"
     /\ ~call.null
     /\ call.tip
     /\ call.ret = 0)
    => /\ "rollback_transaction" \in Invoked
       /\ "commit_transaction" \notin Invoked
       /\ ~transaction_in_progress

\* C3: on a backend that accepts updates, tsk_hdb_commit_transaction or
\* tsk_hdb_rollback_transaction called while no transaction is in progress
\* returns 1, invokes no mutation method of the backend and leaves
\* transaction_in_progress clear.
C3_EndWithoutBeginIsAnError ==
    (/\ call.op \in {"tsk_hdb_commit_transaction", "tsk_hdb_rollback_transaction"}
     /\ ~call.null
     /\ AcceptsUpdatesTrue
     /\ ~call.tip)
    => /\ call.ret = 1
       /\ Invoked \cap MutationMethods = {}
       /\ ~transaction_in_progress

C3_Witness ==
    /\ call.op = "tsk_hdb_commit_transaction"
    /\ ~call.null
    /\ AcceptsUpdatesTrue
    /\ ~call.tip
    /\ call.ret = 1
    /\ tsk_errstr = "tsk_hdb_commit_transaction: transaction not begun"

\* C4: transaction_in_progress is never true for a backend that does not
\* report that it accepts updates.
C4_NoTransactionWithoutCapability ==
    ~AcceptsUpdatesTrue => ~transaction_in_progress

C4_Witness ==
    /\ AcceptsUpdatesFalse
    /\ "begin_transaction" \in fn_set
    /\ call.op = "tsk_hdb_begin_transaction"
    /\ ~call.null
    /\ call.ret = 1
    /\ ~transaction_in_progress

\* C5: on a backend whose accepts_updates reports false, every call of
\* tsk_hdb_add_entry, tsk_hdb_begin_transaction, tsk_hdb_commit_transaction
\* and tsk_hdb_rollback_transaction returns 1 and invokes none of the
\* backend's add_entry, begin_transaction, commit_transaction,
\* rollback_transaction.
C5_MutationGatedCentrally ==
    (/\ call.op \in {"tsk_hdb_add_entry", "tsk_hdb_begin_transaction",
                     "tsk_hdb_commit_transaction", "tsk_hdb_rollback_transaction"}
     /\ AcceptsUpdatesFalse)
    => /\ call.ret = 1
       /\ Invoked \cap MutationMethods = {}

C5_Witness ==
    /\ call.op = "tsk_hdb_add_entry"
    /\ ~call.null
    /\ AcceptsUpdatesFalse
    /\ "add_entry" \in fn_set
    /\ call.ret = 1
    /\ tsk_errno = ERR_PROC

\* C6: a file without the relational-store signature on which two or more
\* of the four text-format tests succeed is detected as INVALID.
C6_AmbiguousIsInvalid ==
    (/\ loc.kind = "detect"
     /\ ~arg.sq
     /\ Cardinality(arg.tests) >= 2)
    => loc.det.db_type = INVALID

C6_Witness ==
    /\ loc.kind = "detect"
    /\ ~arg.sq
    /\ arg.tests = {"nsrl_test", "hk_test"}
    /\ loc.det.db_type = INVALID

\* C7: when hdb_determine_db_type returns, on any of its exit paths, the
\* stream is at offset 0.
C7_StreamRewound ==
    loc.kind = "detect" => loc.det.pos = 0

C7_Witness ==
    /\ loc.kind = "detect"
    /\ ~arg.sq
    /\ arg.tests = {"md5sum_test", "encase_test"}
    /\ \A t \in SniffTests : arg.left[t] > 0
    /\ loc.det.ran[Len(loc.det.ran)] = "encase_test"
    /\ loc.det.pos = 0

\* C8: when tsk_hdb_open returns NULL, neither the handle of the database
\* file nor the handle of the index file is still open in the router's hands.
C8_FailedOpenHoldsNoFile ==
    (loc.kind = "open" /\ loc.r.ret = "NULL")
    => (loc.r.hDb # "open" /\ loc.r.hIdx # "open")

\* The database path the router is to derive from a path: the path without
\* its index suffix, if it ends in one.
EndsWith(s, suffix) ==
    /\ Len(s) >= Len(suffix)
    /\ SubSeq(s, Len(s) - Len(suffix) + 1, Len(s)) = suffix

HasIdxSuffix(s) == EndsWith(s, IDX_MD5) \/ EndsWith(s, IDX_SHA1)

SansIdxSuffix(s) ==
    IF EndsWith(s, IDX_MD5) THEN SubSeq(s, 1, Len(s) - Len(IDX_MD5))
    ELSE IF EndsWith(s, IDX_SHA1) THEN SubSeq(s, 1, Len(s) - Len(IDX_SHA1))
    ELSE s

\* The paths the last tsk_hdb_open handed to the detector and to a constructor.
HandedPaths ==
    {loc.r.detected[i] : i \in DOMAIN loc.r.detected}
        \cup {loc.r.ctor[i].path : i \in DOMAIN loc.r.ctor}

\* C9: the database path tsk_hdb_open hands to the detector and to the
\* backend constructor is the supplied path without its "-md5.idx" or
\* "-sha1.idx" suffix, and the supplied path itself if it ends in neither.
C9_DbPathIsPathSansSuffix ==
    loc.kind = "open" => \A p \in HandedPaths : p = SansIdxSuffix(arg.file_path)

C9_Witness ==
    /\ loc.kind = "open"
    /\ arg.file_path = <<"a">> \o IDX_SHA1
    /\ loc.r.detected = << <<"a">> >>
    /\ Len(loc.r.ctor) = 1
    /\ loc.r.ctor[1].path = <<"a">>

\* The last tsk_hdb_open tried the database file first and could not open it.
PrimaryDidNotOpen ==
    /\ loc.kind = "open"
    /\ ~arg.idxonly
    /\ Len(loc.r.fopen) >= 1
    /\ loc.r.fopen[1] = [path |-> loc.r.db_path, ok |-> FALSE]

\* C10: tsk_hdb_open without the index-only flag, the database file not
\* opening: for a path with an index suffix the type becomes IDXONLY, and
\* tsk_hdb_is_idx_only on the handle returned reports 1; for any other path
\* the call returns NULL with an OPEN error and constructs no backend.
C10_FallbackToIndexOnly ==
    PrimaryDidNotOpen =>
        IF HasIdxSuffix(arg.file_path)
        THEN /\ loc.r.db_type = IDXONLY
             /\ hdb_live => db_type = IDXONLY
             /\ (call.op = "tsk_hdb_is_idx_only" /\ ~call.null) => call.ret = 1
        ELSE /\ loc.r.ret = "NULL"
             /\ loc.r.kind = ERR_OPEN
             /\ loc.r.ctor = <<>>
             /\ ~hdb_live

C10_Witness ==
    /\ PrimaryDidNotOpen
    /\ arg.file_path = <<"a">> \o IDX_MD5
    /\ loc.r.db_path = <<"a">>
    /\ hdb_live
    /\ call.op = "tsk_hdb_is_idx_only"
    /\ ~call.null
    /\ call.ret = 1

\* The last tsk_hdb_open resolved the type to IDXONLY, by flag or by fallback.
ResolvedIdxOnly == loc.kind = "open" /\ loc.r.db_type = IDXONLY

\* The places in the trace of the last tsk_hdb_open where idxonly_open is called.
IdxOnlyCtorAt ==
    {i \in DOMAIN loc.r.trace :
        loc.r.trace[i].ev = "ctor" /\ loc.r.trace[i].what = "idxonly_open"}

\* C11: when tsk_hdb_open resolves the type to IDXONLY, idxonly_open is
\* called only after the supplied path, suffix intact, has been opened with
\* success; if that file does not open, the call returns NULL with an OPEN
\* error and no constructor has been called.
C11_IndexProbedBeforeConstruct ==
    ResolvedIdxOnly =>
        LET t     == loc.r.trace
            probe == [ev |-> "fopen", what |-> arg.file_path, ok |-> TRUE]
            miss  == [ev |-> "fopen", what |-> arg.file_path, ok |-> FALSE]
        IN  /\ \A i \in IdxOnlyCtorAt : \E j \in 1..(i - 1) : t[j] = probe
            /\ (\A j \in DOMAIN t : t[j] # probe)
                   => /\ loc.r.ret = "NULL"
                      /\ loc.r.kind = ERR_OPEN
                      /\ loc.r.ctor = <<>>
                      /\ \E j \in DOMAIN t : t[j] = miss

C11_Witness ==
    /\ ResolvedIdxOnly
    /\ ~arg.idxonly
    /\ arg.file_path = <<"a">> \o IDX_MD5
    /\ loc.r.trace[1] = [ev |-> "fopen", what |-> <<"a">>, ok |-> FALSE]
    /\ loc.r.trace[2] = [ev |-> "fopen", what |-> arg.file_path, ok |-> TRUE]
    /\ IdxOnlyCtorAt = {4}
    /\ loc.r.ret = "hdb"

\* C12: tsk_hdb_create calls the creation routine only for a path that ends
\* in ".kdb", and then with that path; for a NULL path and for every other
\* path it returns 1 with an ARGUMENT error and does not call it.
C12_CreateOnlyKdb ==
    loc.kind = "create" =>
        IF arg.file_path # NullPath /\ EndsWith(arg.file_path, KDB)
        THEN loc.c.created = <<arg.file_path>>
        ELSE /\ loc.c.created = <<>>
             /\ loc.c.ret = 1
             /\ loc.c.kind = ERR_ARG
             /\ tsk_errno = ERR_ARG

C12_Witness ==
    /\ loc.kind = "create"
    /\ arg.file_path = <<"a", ".", "d", "a", "t">>
    /\ loc.c.created = <<>>
    /\ loc.c.ret = 1
    /\ tsk_errstr = "tsk_hdb_create: path must end in .kdb extension"

\* C13: a caller-facing operation called with a NULL handle has invoked no
\* backend method and has recorded the string that starts with its own name,
\* so no two operations record the same string.
C13_NullHandleNamesOperation ==
    (call.op # "none" /\ call.null)
    => /\ Invoked = {}
       /\ call.str = call.op \o ": NULL hdb_info"
       /\ tsk_errstr = call.str

\* C14: tsk_hdb_open_idx has returned 0 only if the handle was not NULL and
\* the backend's open_index was invoked and reported the index ready; with a
\* NULL handle it has returned a nonzero value.
C14_OpenIdxZeroOnlyWhenReady ==
    call.op = "tsk_hdb_open_idx"
    => /\ call.ret = 0 => (~call.null /\ "open_index" \in Invoked)
       /\ call.null => call.ret # 0

\* The optional operation whose pointer an entry point tests as its own.
OwnOperation(op) ==
    CASE op = "tsk_hdb_add_entry"            -> "add_entry"
      [] op = "tsk_hdb_begin_transaction"    -> "begin_transaction"
      [] op = "tsk_hdb_commit_transaction"   -> "commit_transaction"
      [] op = "tsk_hdb_rollback_transaction" -> "rollback_transaction"
      [] OTHER                               -> "accepts_updates"

MutationEntryPoints == {"tsk_hdb_add_entry", "tsk_hdb_begin_transaction",
                        "tsk_hdb_commit_transaction", "tsk_hdb_rollback_transaction"}

\* The last call was made on a backend without the mutation capability:
\* accepts_updates reports false, or an operation the call needs is unset.
LacksCapability ==
    \/ OwnOperation(call.op) \notin fn_set
    \/ "accepts_updates" \notin fn_set
    \/ ~accepts

\* The last call was a begin while active or a commit or rollback while
\* inactive, on a backend that has the capability.
StateMisuse ==
    /\ ~LacksCapability
    /\ \/ call.op = "tsk_hdb_begin_transaction" /\ call.tip
       \/ call.op \in {"tsk_hdb_commit_transaction", "tsk_hdb_rollback_transaction"}
              /\ ~call.tip

\* C15: a mutation entry point called with a handle on a backend that lacks
\* the mutation capability, or in the wrong transaction state, has recorded
\* an error of kind PROCEDURE.
C15_ProcedureErrorKind ==
    (/\ call.op \in MutationEntryPoints
     /\ ~call.null
     /\ LacksCapability \/ StateMisuse)
    => /\ call.kind = ERR_PROC
       /\ tsk_errno = ERR_PROC

\* The format each text-format test stands for.
FormatOf(t) ==
    CASE t = "nsrl_test"   -> NSRL
      [] t = "md5sum_test" -> MD5SUM
      [] t = "encase_test" -> ENCASE
      [] t = "hk_test"     -> HK

\* C16: hdb_determine_db_type runs the relational-store test first; when it
\* matches the result is SQLITE and no text-format test has run, whatever
\* those tests would report; when it does not match, exactly one matching
\* text-format test gives that format and no matching test gives INVALID.
C16_RelationalStoreFirst ==
    loc.kind = "detect" =>
        /\ loc.det.ran # <<>>
        /\ loc.det.ran[1] = "sqlite_hdb_is_sqlite_file"
        /\ arg.sq => /\ loc.det.db_type = SQLITE
                     /\ loc.det.ran = <<"sqlite_hdb_is_sqlite_file">>
        /\ ~arg.sq => /\ \A t \in TextTests :
                             arg.tests = {t} => loc.det.db_type = FormatOf(t)
                      /\ arg.tests = {} => loc.det.db_type = INVALID

C16_Witness ==
    /\ loc.kind = "detect"
    /\ arg.sq
    /\ arg.tests = {"nsrl_test", "hk_test"}
    /\ loc.det.db_type = SQLITE
    /\ loc.det.ran = <<"sqlite_hdb_is_sqlite_file">>

\* C17: a step changes transaction_in_progress only if it is a
\* tsk_hdb_begin_transaction that returns 0, which sets it, or a
\* tsk_hdb_commit_transaction or tsk_hdb_rollback_transaction that returns 0,
\* which clears it; every other call leaves it as it was, and no call
\* changes db_type.
C17_FlagAndTypeFrame ==
    [][/\ db_type' = db_type
       /\ transaction_in_progress' # transaction_in_progress
              => \/ /\ call'.op = "tsk_hdb_begin_transaction"
                    /\ call'.ret = 0
                    /\ transaction_in_progress'
                 \/ /\ call'.op \in {"tsk_hdb_commit_transaction",
                                      "tsk_hdb_rollback_transaction"}
                    /\ call'.ret = 0
                    /\ ~transaction_in_progress']_vars

C17_Witness ==
    /\ call.op = "tsk_hdb_add_entry"
    /\ call.ret = 0
    /\ "add_entry" \in Invoked
    /\ call.tip
    /\ transaction_in_progress

\* C18: whatever subset of the optional operations the backend leaves unset,
\* the accepts-updates query and the four mutation entry points invoke only
\* operations that are set, and the call returns.
C18_NoUnsetOperationInvoked ==
    call.op \in MutationEntryPoints \cup {"tsk_hdb_accepts_updates"}
    => /\ Invoked \subseteq fn_set
       /\ pc = "ready"

\* C19: the backend's begin_transaction has been invoked only by a call made
\* while transaction_in_progress was clear, and an operation of the backend
\* that ends a transaction only by a call made while it was set; the
\* backend's successful begins and endings alternate, starting with a begin:
\* the backend has one transaction open exactly when the flag is set, and
\* none otherwise.
C19_BackendBeginsAndEndsAlternate ==
    /\ "begin_transaction" \in Invoked => ~call.tip
    /\ Invoked \cap {"commit_transaction", "rollback_transaction"} # {} => call.tip
    /\ backend_open = IF transaction_in_progress THEN 1 ELSE 0

C19_Witness ==
    /\ call.op = "tsk_hdb_rollback_transaction"
    /\ call.ret = 0
    /\ call.tip
    /\ Invoked \cap {"commit_transaction", "rollback_transaction"} # {}
    /\ backend_open = 0

\* C20: when the backend operation that tsk_hdb_begin_transaction,
\* tsk_hdb_commit_transaction or tsk_hdb_rollback_transaction invoked has
\* reported failure, the call has returned 1 and transaction_in_progress is
\* what it was before the call: clear after a failed begin, set after a
\* failed commit or rollback.
C20_BackendFailureKeepsState ==
    (/\ call.op \in MutationEntryPoints \ {"tsk_hdb_add_entry"}
     /\ call.bfail)
    => /\ call.ret = 1
       /\ transaction_in_progress = call.tip
       /\ transaction_in_progress = (call.op # "tsk_hdb_begin_transaction")

C20_Witness ==
    /\ call.op = "tsk_hdb_commit_transaction"
    /\ call.bfail
    /\ "commit_transaction" \in Invoked
    /\ call.ret = 1
    /\ transaction_in_progress

\* The calls of fclose the router made before it called a constructor.
ClosedBeforeCtor(h) ==
    {i \in DOMAIN loc.r.trace :
        /\ loc.r.trace[i] = [ev |-> "fclose", what |-> h, ok |-> TRUE]
        /\ \E j \in DOMAIN loc.r.trace : j > i /\ loc.r.trace[j].ev = "ctor"}

TextCtors == {"nsrl_open", "md5sum_open", "encase_open", "hk_open"}

\* C21: when tsk_hdb_open has called a backend constructor, the router holds
\* no open file at its return: hDb was passed to the text-format constructor,
\* or closed before sqlite_hdb_open was called, hIdx was closed before
\* idxonly_open was called, and no handle was both closed and passed.
C21_RouterRetainsNoHandle ==
    (loc.kind = "open" /\ loc.r.ctor # <<>>) =>
        LET c == loc.r.ctor[1]
        IN  /\ Len(loc.r.ctor) = 1
            /\ loc.r.hDb # "open"
            /\ loc.r.hIdx # "open"
            /\ c.name \in TextCtors
                   => /\ c.file
                      /\ loc.r.hDb = "passed"
                      /\ loc.r.hIdx = "NULL"
            /\ c.name = "sqlite_hdb_open"
                   => /\ ~c.file
                      /\ loc.r.hDb = "closed"
                      /\ ClosedBeforeCtor("hDb") # {}
                      /\ loc.r.hIdx = "NULL"
            /\ c.name = "idxonly_open"
                   => /\ ~c.file
                      /\ loc.r.hIdx = "closed"
                      /\ ClosedBeforeCtor("hIdx") # {}
                      /\ loc.r.hDb = "NULL"
            /\ c.file => \A i \in DOMAIN loc.r.trace : loc.r.trace[i].ev # "fclose"

C21_Witness ==
    /\ loc.kind = "open"
    /\ Len(loc.r.ctor) = 1
    /\ loc.r.ctor[1].name = "sqlite_hdb_open"
    /\ loc.r.hDb = "closed"
    /\ ClosedBeforeCtor("hDb") # {}
    /\ loc.r.ret = "NULL"

====
